---- MODULE Spec2Model ----
(***************************************************************************)
(* State-machine model of the agent coordinator (task queue, dispatch      *)
(* tick, agent registry) and of the SearchAgent message handling.          *)
(*                                                                         *)
(* JavaScript runs every handler to its next await without interleaving,   *)
(* so one action is the code between two suspension points.  A chain of    *)
(* awaits on already settled promises (sendMessage, shutdown) resumes in   *)
(* microtasks, before any timer or I/O callback, and is part of the action *)
(* that started it unless another action is needed to observe it.          *)
(***************************************************************************)
EXTENDS Integers, Sequences, FiniteSets, TLC

\* ---------------------------------------------------------------- bounds
MaxTasks == 2          \* tasks created under Spec and SpecDispatch
MaxBatch == 3          \* tasks created under SpecBatch
MaxClock == 1          \* values the clock takes after 0
MaxRegistryCalls == 1  \* registerAgent and unregisterAgent calls after construction
MaxSearchTasks == 1    \* tasks created under SpecSearch
MaxRequested == 2      \* largest payload.maxResults submitted
MaxHits == 2           \* most hits the web search provider returns
MaxDocs == 2           \* most documents the vector store holds
MaxContext == 6        \* most entries of a context under SpecConfidence
MaxPositions == 12     \* most hits of a web response under SpecRelevance
MaxHandlers == 3       \* most handlers registered for one event
MaxJobs == 1           \* crawl jobs started
MaxLinks == 2          \* most links found on one page
MaxAlerts == 2         \* alerts created
MaxMetrics == 1        \* metrics collected
MaxChats == 26         \* chat requests that pass validation
MaxInFlight == 2       \* chat requests in flight at a time
MaxUnregisters == 2    \* unregisterAgent calls under SpecRegistry

\* ------------------------------------------------------------- constants
Priorities == {"low", "medium", "high", "critical"}
TaskTypes == {"web-search", "summarize"}
AgentObjs == {"search-agent-1", "search-agent-2"}
DefaultAgent == "search-agent-1"
Undefined == "undefined"
NoTime == 0 - 1
NoMax == 0 - 1          \* payload.maxResults absent

VARIABLES
    agents,         \* AgentCoordinator.agents: ids in Map insertion order
    taskQueue,      \* AgentCoordinator.taskQueue: sequence of task ids
    activeTasks,    \* AgentCoordinator.activeTasks: task ids in Map insertion order
    isRunning,      \* AgentCoordinator.isRunning
    timers,         \* number of live setInterval timers (taskProcessorInterval)
    tasks,          \* the AgentTask objects ever created, indexed by id
    agentStatus,    \* BaseAgent.status of every agent object
    zai,            \* SearchAgent.zai # null
    initPending,    \* agent objects whose initialize() awaits ZAI.create()
    pc,             \* per task: where its processTaskQueue invocation is suspended
    now,            \* the wall clock read by new Date()
    statusHistory,  \* per task: the successive values of task.status
    dispatchLog,    \* task ids in the order they were handed to an agent
    everMissed,     \* some dispatch tick found no suitable agent
    lateCreate,     \* some createTask ran after the first dispatch tick
    registryCalls,  \* registerAgent and unregisterAgent calls made so far
    providerCalls,  \* per task: the provider calls its handler has made
    settled,        \* per task: how the web and the vector sub-call settled
    returned,       \* per task: the SearchResult[] that task.result refers to
    rag,            \* RAGPipeline: the processQuery call in progress
    emitter,        \* a BaseAgent's status and event handlers, seen apart from the coordinator
    crawler,        \* WebCrawler: zai, the crawl jobs and what the last stopCrawl returned
    monitor,        \* SystemMonitor: metrics, alerts and what the last resolveAlert returned
    chat            \* chat route: conversationStore, the arrays it refers to, the requests in flight

vars == <<agents, taskQueue, activeTasks, isRunning, timers, tasks, agentStatus,
          zai, initPending, pc, now, statusHistory, dispatchLog, everMissed,
          lateCreate, registryCalls, providerCalls, settled, returned, rag, emitter, crawler, monitor, chat>>

TaskIds == 1..Len(tasks)

\* the variables of the coordinator and of the agents it runs
coordinator == <<agents, taskQueue, activeTasks, isRunning, timers, tasks,
                 agentStatus, zai, initPending, pc, now, statusHistory,
                 dispatchLog, everMissed, lateCreate, registryCalls,
                 providerCalls, settled, returned>>

\* ------------------------------------------------------ sequence helpers
RECURSIVE SeqToSet(_)
SeqToSet(s) == IF s = <<>> THEN {} ELSE {Head(s)} \cup SeqToSet(Tail(s))

RECURSIVE Remove(_, _)
Remove(s, x) ==
    IF s = <<>> THEN <<>>
    ELSE IF Head(s) = x THEN Remove(Tail(s), x)
    ELSE <<Head(s)>> \o Remove(Tail(s), x)

RECURSIVE Count(_, _)
Count(s, x) ==
    IF s = <<>> THEN 0
    ELSE (IF Head(s) = x THEN 1 ELSE 0) + Count(Tail(s), x)

\* ------------------------------------------------------------ priorities
priorityOrder(p) ==
    CASE p = "critical" -> 4
      [] p = "high" -> 3
      [] p = "medium" -> 2
      [] p = "low" -> 1

\* the comparator of sortTaskQueue and getTasks: negative when a goes first
compareTasks(ts, a, b) ==
    LET priorityDiff == priorityOrder(ts[b].priority) - priorityOrder(ts[a].priority)
    IN  IF priorityDiff # 0 THEN priorityDiff
        ELSE ts[a].createdAt - ts[b].createdAt

\* Array.prototype.sort is stable: x goes after every element it does not precede
RECURSIVE InsertSorted(_, _, _)
InsertSorted(ts, s, x) ==
    IF s = <<>> THEN <<x>>
    ELSE IF compareTasks(ts, x, Head(s)) < 0 THEN <<x>> \o s
    ELSE <<Head(s)>> \o InsertSorted(ts, Tail(s), x)

RECURSIVE StableSort(_, _)
StableSort(ts, s) ==
    IF s = <<>> THEN <<>>
    ELSE InsertSorted(ts, StableSort(ts, SubSeq(s, 1, Len(s) - 1)), s[Len(s)])

sortTaskQueue_noop(ts, q) == q

sortTaskQueue(ts, q) == StableSort(ts, q)

\* ---------------------------------------------------------------- agents
agentType(a) == "search-agent"

capabilities(a) ==
    [search |-> TRUE, processing |-> FALSE, safety |-> FALSE,
     specialized |-> {"web-search", "vector-search", "hybrid-search"}]

HasCapability(a, type) ==
    \/ type \in capabilities(a).specialized
    \/ type = "search" /\ capabilities(a).search

NoAgent == "null"

availableAgents == SelectSeq(agents, LAMBDA a : agentStatus[a] = "idle")

findSuitableAgent_serial(type) ==
    IF activeTasks # <<>> \/ availableAgents = <<>> THEN NoAgent
    ELSE availableAgents[1]

findSuitableAgent(type) ==
    IF availableAgents = <<>> THEN NoAgent
    ELSE IF type \in {"search", "web-search", "vector-search", "hybrid-search"}
    THEN LET found == SelectSeq(availableAgents,
                        LAMBDA a : agentType(a) = "search-agent" /\ capabilities(a).search)
         IN  IF found # <<>> THEN found[1] ELSE availableAgents[1]
    ELSE availableAgents[1]

\* Map.set: a new key goes last, an existing key keeps its place
MapSet(m, k) == IF k \in SeqToSet(m) THEN m ELSE Append(m, k)

\* -------------------------------------------------------- search inputs
\* `payload.maxResults || d`: an absent value and 0 both give the default
maxOr(m, d) == IF m = NoMax \/ m = 0 THEN d ELSE m

DefaultWebLimit == 10

DefaultVectorLimit == 5

\* the payload of the tasks whose type alone selects the handler
DefaultPayload == [query |-> "q", searchType |-> Undefined, maxResults |-> NoMax]

\* SearchQuery payloads submitted with tasks of type 'search'
SearchPayloads ==
    {[query |-> "q", searchType |-> st, maxResults |-> m] :
        st \in {"web", "vector", "hybrid"}, m \in {NoMax} \cup (0..MaxRequested)}
    \cup {[query |-> "", searchType |-> "web", maxResults |-> NoMax]}

\* payloads of 'search' tasks with the query or the searchType field left
\* out, or with a searchType outside the three modes
ValidationPayloads ==
    [query : {"q", Undefined}, searchType : {"web", "vector", "hybrid", "semantic", Undefined},
     maxResults : {NoMax}]

\* a provider call that threw or rejected
Failure == [ok |-> FALSE, hits |-> <<>>]

\* one entry of the array web_search resolves to
WebHits == {[wikipedia |-> FALSE, recent |-> FALSE, rank |-> 0]}

WebResponses ==
    {Failure} \cup
    {[ok |-> TRUE, hits |-> h] : h \in UNION {[1..n -> WebHits] : n \in 0..MaxHits}}

DefaultWebResponse == [ok |-> TRUE, hits |-> <<[wikipedia |-> FALSE, recent |-> FALSE, rank |-> 0]>>]

\* MockEmbeddingGenerator.generateEmbedding: one embedding per text, its
\* components within [0, 1]
generateEmbedding(text) == <<1, 0>>

\* stored documents; addDocument takes any id and any embedding
Documents ==
    {[id |-> "doc1", embedding |-> <<1, 0>>],
     [id |-> "web_0", embedding |-> <<0 - 1, 0>>]}

\* VectorStore.documents is a Map: insertion order, one document per id
VectorStores ==
    {s \in UNION {[1..n -> Documents] : n \in 0..MaxDocs} :
        \A i, j \in 1..Len(s) : i # j => s[i].id # s[j].id}

\* what the embedding generator and the store answer: hits is the store content
VectorResponses == {Failure} \cup {[ok |-> TRUE, hits |-> s] : s \in VectorStores}

DefaultVectorResponse ==
    [ok |-> TRUE, hits |-> <<[id |-> "doc1", embedding |-> <<1, 0>>]>>]

\* ------------------------------------------------------ arrays of results
\* Array.prototype.sort((a, b) => b[key] - a[key]) is stable
RECURSIVE InsertDescending(_, _, _)
InsertDescending(s, x, key) ==
    IF s = <<>> THEN <<x>>
    ELSE IF x[key] > Head(s)[key] THEN <<x>> \o s
    ELSE <<Head(s)>> \o InsertDescending(Tail(s), x, key)

RECURSIVE SortDescending(_, _)
SortDescending(s, key) ==
    IF s = <<>> THEN <<>>
    ELSE InsertDescending(SortDescending(SubSeq(s, 1, Len(s) - 1), key), s[Len(s)], key)

\* Array.prototype.slice(0, n) for n >= 0
slice(s, n) == SubSeq(s, 1, IF n < Len(s) THEN n ELSE Len(s))

RECURSIVE DotProduct(_, _)
DotProduct(a, b) ==
    IF a = <<>> THEN 0
    ELSE Head(a) * Head(b) + DotProduct(Tail(a), Tail(b))

\* the largest r in lo..hi with r * r <= x
RECURSIVE SqrtBetween(_, _, _)
SqrtBetween(x, lo, hi) ==
    IF lo = hi THEN lo
    ELSE LET mid == (lo + hi + 1) \div 2
         IN  IF mid * mid <= x THEN SqrtBetween(x, mid, hi)
             ELSE SqrtBetween(x, lo, mid - 1)

\* dotProduct / (sqrt(normA) * sqrt(normB)) in permille, cut towards 0
cosineSimilarity(a, b) ==
    IF Len(a) # Len(b) THEN 0
    ELSE LET dotProduct == DotProduct(a, b)
             norms == DotProduct(a, a) * DotProduct(b, b)
             size == IF norms = 0 THEN 0
                     ELSE SqrtBetween((1000000 * dotProduct * dotProduct) \div norms,
                                      0, 1000)
         IN  IF dotProduct < 0 THEN 0 - size ELSE size

\* every stored document scored against the query, best first, cut to limit
similaritySearch(queryEmbedding, documents, limit) ==
    LET results == [i \in 1..Len(documents) |->
                       [id |-> documents[i].id,
                        score |-> cosineSimilarity(queryEmbedding,
                                                   documents[i].embedding)]]
    IN  slice(SortDescending(results, "score"), limit)

\* ------------------------------------------------------- search handlers
Fulfilled(value) == [ok |-> TRUE, value |-> value, error |-> Undefined]

Rejected(error) == [ok |-> FALSE, value |-> <<>>, error |-> error]

\* a sub-call that was not made, or has not settled
NoCall == [ok |-> FALSE, value |-> <<>>, error |-> "none"]

NotSettled ==
    [web |-> NoCall, vector |-> NoCall, webFailed |-> FALSE, vectorFailed |-> FALSE]

calculateRelevanceScore_noFloor(result, rank) ==
    LET score == 1000 - rank * 100
                   + (IF result.wikipedia THEN 100 ELSE 0)
                   + (IF result.recent THEN 50 ELSE 0)
    IN  IF score < 1000 THEN score ELSE 1000

\* scores in permille
calculateRelevanceScore(result, rank) ==
    LET score == 1000 - rank * 100
                   + (IF result.wikipedia THEN 100 ELSE 0)
                   + (IF result.recent THEN 50 ELSE 0)
        capped == IF score < 1000 THEN score ELSE 1000
    IN  IF capped > 100 THEN capped ELSE 100

handleWebSearch_swallow(payload, hasZai, response, time) ==
    Fulfilled([i \in 1..Len(response.hits) |->
        [id |-> "web_" \o ToString(time) \o "_" \o ToString(i - 1),
         relevanceScore |-> calculateRelevanceScore(response.hits[i], i - 1),
         sourceType |-> "web"]])

handleWebSearch(payload, hasZai, response, time) ==
    IF ~hasZai THEN Rejected("ZAI not initialized")
    ELSE IF ~response.ok THEN Rejected("provider error")
    ELSE Fulfilled([i \in 1..Len(response.hits) |->
            [id |-> "web_" \o ToString(time) \o "_" \o ToString(i - 1),
             relevanceScore |-> calculateRelevanceScore(response.hits[i], i - 1),
             sourceType |-> "web"]])

handleVectorSearch(payload, response) ==
    IF ~response.ok THEN Rejected("provider error")
    ELSE LET vectorResults ==
                 similaritySearch(generateEmbedding(payload.query), response.hits,
                                  maxOr(payload.maxResults, DefaultVectorLimit))
         IN  Fulfilled([i \in 1..Len(vectorResults) |->
                 [id |-> "vector_" \o vectorResults[i].id,
                  relevanceScore |-> vectorResults[i].score,
                  sourceType |-> "vector"]])

\* entries of a web response as calculateRelevanceScore reads them: whether
\* host_name includes 'wikipedia', and what isRecent(date) answers
FlaggedHits == {[wikipedia |-> h, recent |-> r, rank |-> 0] : h, r \in BOOLEAN}

\* web responses of up to MaxPositions entries, from two hosts in turn
FlaggedResponses ==
    {[ok |-> TRUE, hits |-> [i \in 1..n |-> IF i % 2 = 1 THEN x ELSE y]] :
        x \in FlaggedHits, y \in FlaggedHits, n \in 0..MaxPositions}

\* the payloads handleHybridSearch passes to its two sub-calls
webHalf(payload) ==
    [payload EXCEPT !.maxResults = maxOr(@, DefaultWebLimit) \div 2]

vectorHalf(payload) ==
    [payload EXCEPT !.maxResults = (maxOr(@, DefaultWebLimit) + 1) \div 2]

handleHybridSearch_unsorted(payload, webResults, vectorResults) ==
    LET results == (IF webResults.ok THEN webResults.value ELSE <<>>)
                   \o (IF vectorResults.ok THEN vectorResults.value ELSE <<>>)
    IN  Fulfilled(slice(results, maxOr(payload.maxResults, DefaultWebLimit)))

handleHybridSearch_all(payload, webResults, vectorResults) ==
    IF ~webResults.ok THEN webResults
    ELSE IF ~vectorResults.ok THEN vectorResults
    ELSE Fulfilled(slice(SortDescending(webResults.value \o vectorResults.value,
                                        "relevanceScore"),
                         maxOr(payload.maxResults, DefaultWebLimit)))

\* Promise.allSettled never rejects: rejected sub-calls contribute nothing
handleHybridSearch(payload, webResults, vectorResults) ==
    LET results == (IF webResults.ok THEN webResults.value ELSE <<>>)
                   \o (IF vectorResults.ok THEN vectorResults.value ELSE <<>>)
    IN  Fulfilled(slice(SortDescending(results, "relevanceScore"),
                        maxOr(payload.maxResults, DefaultWebLimit)))

\* the handler processMessage and handleSearch select, or the error they throw
handlerOf_lenient(type, payload) ==
    IF type = "web-search" THEN "web"
    ELSE IF type = "vector-search" THEN "vector"
    ELSE IF type = "search"
    THEN IF payload.searchType \in {"vector", "hybrid"} THEN payload.searchType ELSE "web"
    ELSE "Unknown message type"

handlerOf(type, payload) ==
    IF type = "web-search" THEN "web"
    ELSE IF type = "vector-search" THEN "vector"
    ELSE IF type = "search"
    THEN IF payload.query = Undefined \/ payload.searchType = Undefined
         THEN "Invalid search payload"
         ELSE IF payload.searchType \in {"web", "vector", "hybrid"}
         THEN payload.searchType
         ELSE "Unknown search type"
    ELSE "Unknown message type"

\* the provider calls a handler has started when it first suspends
callsStarted(type, payload, hasZai) ==
    LET h == handlerOf(type, payload)
        Web(p) == IF hasZai
                  THEN {[provider |-> "web_search", query |-> p.query,
                         limit |-> maxOr(p.maxResults, DefaultWebLimit)]}
                  ELSE {}
        Embedding(p) == {[provider |-> "embedding", query |-> p.query,
                          limit |-> NoMax]}
    IN  IF h = "web" THEN Web(payload)
        ELSE IF h = "vector" THEN Embedding(payload)
        ELSE IF h = "hybrid" THEN Web(webHalf(payload)) \cup Embedding(vectorHalf(payload))
        ELSE {}

\* the call to the vector store a handler makes once the embedding is there
indexCalls(type, payload, vector) ==
    LET h == handlerOf(type, payload)
        Index(p) == {[provider |-> "similaritySearch", query |-> p.query,
                      limit |-> maxOr(p.maxResults, DefaultVectorLimit)]}
    IN  IF ~vector.ok THEN {}
        ELSE IF h = "vector" THEN Index(payload)
        ELSE IF h = "hybrid" THEN Index(vectorHalf(payload))
        ELSE {}

\* how the two sub-calls of a task settle, given what the providers answer;
\* webFailed and vectorFailed tell which provider calls were made and failed
subcalls(type, payload, hasZai, web, vector, time) ==
    LET h == handlerOf(type, payload)
    IN  [web |-> IF h = "web" THEN handleWebSearch(payload, hasZai, web, time)
                 ELSE IF h = "hybrid"
                 THEN handleWebSearch(webHalf(payload), hasZai, web, time)
                 ELSE NoCall,
         vector |-> IF h = "vector" THEN handleVectorSearch(payload, vector)
                    ELSE IF h = "hybrid"
                    THEN handleVectorSearch(vectorHalf(payload), vector)
                    ELSE NoCall,
         webFailed |-> h \in {"web", "hybrid"} /\ hasZai /\ ~web.ok,
         vectorFailed |-> h \in {"vector", "hybrid"} /\ ~vector.ok]

\* what processMessage resolves or rejects with
searchOutcome(type, payload, sub) ==
    LET h == handlerOf(type, payload)
    IN  IF h = "web" THEN sub.web
        ELSE IF h = "vector" THEN sub.vector
        ELSE IF h = "hybrid" THEN handleHybridSearch(payload, sub.web, sub.vector)
        ELSE Rejected(h)

\* -------------------------------------------------------------- pipeline
\* RAGRequest: maxResults and includeWebSearch, NoMax when maxResults is absent
RagRequests == [maxResults : {NoMax} \cup (0..MaxRequested), includeWebSearch : BOOLEAN]

\* the destructuring defaults of processQuery
DefaultRequest == [maxResults |-> NoMax, includeWebSearch |-> TRUE]

\* entries of the array web_search resolves to; rank 0 stands for no rank
RankedHits == {[wikipedia |-> FALSE, recent |-> FALSE, rank |-> r] : r \in {0, 3, 12, 50}}

\* scores of context entries under SpecConfidence, in permille
ScoreSamples == {0, 600, 1000}

RankedResponses ==
    {Failure} \cup
    {[ok |-> TRUE, hits |-> h] : h \in UNION {[1..n -> RankedHits] : n \in 0..MaxHits}}

\* 0 / 0, and a confidence not computed yet
NaN == 0 - 1000000

NoScore == 0 - 2000000

\* the reply of generateResponse when the context is empty
NoInformation == "I apologize, but I couldn't find any relevant information"

\* what chat.completions.create does: content, no content, or a rejection
Completions == {"content", "empty", "rejected"}

\* no processQuery call in progress
RagIdle ==
    [pc |-> "idle", request |-> DefaultRequest, vectorResults |-> <<>>,
     sources |-> <<>>, response |-> "", confidenceScore |-> NoScore]

\* scores in permille: vector scores weigh 0.8, web scores 0.9
combineAndRankResults(vectorResults, webResults) ==
    LET fromVector == [i \in 1..Len(vectorResults) |->
                          [id |-> vectorResults[i].id,
                           score |-> (vectorResults[i].score * 8) \div 10,
                           source_type |-> "vector"]]
        Rank(i) == IF webResults[i].rank # 0 THEN webResults[i].rank ELSE i - 1
        fromWeb == [i \in 1..Len(webResults) |->
                       [id |-> "web_" \o ToString(i - 1),
                        score |-> ((1000 - 100 * Rank(i)) * 9) \div 10,
                        source_type |-> "web"]]
    IN  slice(SortDescending(fromVector \o fromWeb, "score"), 10)

\* generateResponse once the completion call settled
generateResponse(completion) ==
    IF completion = "content" THEN "completion"
    ELSE IF completion = "empty" THEN "Unable to generate response"
    ELSE "I found some relevant information, but encountered an issue"

\* number division, the quotient cut towards 0 at the permille
Quotient(a, b) == IF a < 0 THEN 0 - ((0 - a) \div b) ELSE a \div b

RECURSIVE SumScores(_)
SumScores(context) ==
    IF context = <<>> THEN 0 ELSE Head(context).score + SumScores(Tail(context))

calculateConfidenceScore_cap90(context) ==
    IF context = <<>> THEN NaN
    ELSE LET bonus == IF Len(context) * 50 < 300 THEN Len(context) * 50 ELSE 300
             avgRelevance == Quotient(SumScores(context), Len(context))
             score == 500 + bonus + Quotient(avgRelevance * 2, 10)
         IN  IF score < 900 THEN score ELSE 900

\* in permille; the average of an empty context is 0 / 0, and every
\* operation on NaN, Math.min included, gives NaN
calculateConfidenceScore(context) ==
    IF context = <<>> THEN NaN
    ELSE LET bonus == IF Len(context) * 50 < 300 THEN Len(context) * 50 ELSE 300
             avgRelevance == Quotient(SumScores(context), Len(context))
             score == 500 + bonus + Quotient(avgRelevance * 2, 10)
         IN  IF score < 950 THEN score ELSE 950

\* processQuery from step 4: with an empty context generateResponse returns
\* at once and the call ends; otherwise it awaits the completion
combined(request, vectorResults, webResults) ==
    LET allResults == combineAndRankResults(vectorResults, webResults)
    IN  IF allResults = <<>>
        THEN [pc |-> "done", request |-> request, vectorResults |-> vectorResults,
              sources |-> allResults, response |-> NoInformation,
              confidenceScore |-> calculateConfidenceScore(allResults)]
        ELSE [pc |-> "generate", request |-> request,
              vectorResults |-> vectorResults, sources |-> allResults,
              response |-> "", confidenceScore |-> NoScore]

\* processQuery up to `await web_search`, or to step 4 when no web search is
\* made; a failing embedding or store call rejects the query
processQuery(request, vector) ==
    /\ rag.pc \notin {"web_search", "generate"}
    /\ IF ~vector.ok
       THEN rag' = [RagIdle EXCEPT !.pc = "failed", !.request = request]
       ELSE LET maxResults == IF request.maxResults = NoMax THEN 5
                              ELSE request.maxResults
                vectorResults == similaritySearch(generateEmbedding("q"), vector.hits,
                                                  maxResults)
            IN  IF request.includeWebSearch /\ Len(vectorResults) < 3
                THEN rag' = [RagIdle EXCEPT !.pc = "web_search",
                                            !.request = request,
                                            !.vectorResults = vectorResults]
                ELSE rag' = combined(request, vectorResults, <<>>)
    /\ UNCHANGED <<agents, taskQueue, activeTasks, isRunning, timers, tasks,
                   agentStatus, zai, initPending, pc, now, statusHistory,
                   dispatchLog, everMissed, lateCreate, registryCalls,
                   providerCalls, settled, returned, emitter, crawler, monitor, chat>>

\* web_search settled: a failure is caught and leaves webResults empty
webSearchSettled(web) ==
    /\ rag.pc = "web_search"
    /\ rag' = combined(rag.request, rag.vectorResults,
                       IF web.ok THEN web.hits ELSE <<>>)
    /\ UNCHANGED <<agents, taskQueue, activeTasks, isRunning, timers, tasks,
                   agentStatus, zai, initPending, pc, now, statusHistory,
                   dispatchLog, everMissed, lateCreate, registryCalls,
                   providerCalls, settled, returned, emitter, crawler, monitor, chat>>

\* the completion call settled: steps 5 and 6, and processQuery returns
completionSettled(completion) ==
    /\ rag.pc = "generate"
    /\ rag' = [rag EXCEPT !.pc = "done",
                          !.response = generateResponse(completion),
                          !.confidenceScore = calculateConfidenceScore(rag.sources)]
    /\ UNCHANGED <<agents, taskQueue, activeTasks, isRunning, timers, tasks,
                   agentStatus, zai, initPending, pc, now, statusHistory,
                   dispatchLog, everMissed, lateCreate, registryCalls,
                   providerCalls, settled, returned, emitter, crawler, monitor, chat>>

\* ---------------------------------------------------------------- events
\* handlers of 'statusChanged': one that logs, one that throws
Handlers == {"log", "throws"}

\* BaseAgent after its constructor: status idle, no handler; `called` holds
\* the handlers the last emit has called, `threw` whether setStatus threw
EmitterIdle ==
    [status |-> "idle", eventHandlers |-> <<>>, called |-> <<>>, threw |-> FALSE]

\* the first index of x in s, 0 when absent (indexOf gives -1)
RECURSIVE indexOf(_, _)
indexOf(s, x) ==
    IF s = <<>> THEN 0
    ELSE IF Head(s) = x THEN 1
    ELSE LET i == indexOf(Tail(s), x) IN IF i = 0 THEN 0 ELSE i + 1

emit_noCatch(handlers) ==
    LET k == indexOf(handlers, "throws")
    IN  IF k = 0 THEN [called |-> handlers, threw |-> FALSE]
        ELSE [called |-> SubSeq(handlers, 1, k), threw |-> TRUE]

\* emit: every handler is called in order, each inside its own try/catch
emit(handlers) == [called |-> handlers, threw |-> FALSE]

on(handler) ==
    /\ emitter' = [emitter EXCEPT !.eventHandlers = Append(@, handler)]
    /\ UNCHANGED <<coordinator, rag, crawler, monitor, chat>>

off(handler) ==
    /\ LET index == indexOf(emitter.eventHandlers, handler)
           hs == emitter.eventHandlers
       IN  emitter' = [emitter EXCEPT !.eventHandlers =
                          IF index > 0
                          THEN SubSeq(hs, 1, index - 1) \o SubSeq(hs, index + 1, Len(hs))
                          ELSE hs]
    /\ UNCHANGED <<coordinator, rag, crawler, monitor, chat>>

\* setStatus: the status is written, then 'statusChanged' is emitted
setStatus(status) ==
    /\ LET emitted == emit(emitter.eventHandlers)
       IN  emitter' = [emitter EXCEPT !.status = status,
                                      !.called = emitted.called,
                                      !.threw = emitted.threw]
    /\ UNCHANGED <<coordinator, rag, crawler, monitor, chat>>

\* --------------------------------------------------------------- crawler
\* the pages of the site crawled, "a" being the URL of every request; all are
\* on the host of "a", at depth 0
Urls == {"a", "b", "c"}

getUrlDepth(url) == 0

\* what extractLinks may find on a page: up to MaxLinks URLs, none twice
LinkLists ==
    {<<>>} \cup
    {l \in UNION {[1..n -> Urls] : n \in 1..MaxLinks} :
        \A i, j \in 1..Len(l) : i # j => l[i] # l[j]}

DefaultMaxPages == 50

DefaultMaxDepth == 2

\* CrawlRequest as startCrawl receives it: maxPages may be absent
CrawlRequests == [url : {"a"}, maxPages : {NoMax} \cup (0..2)]

CrawlerInit ==
    [zai |-> FALSE, initPending |-> TRUE, jobs |-> <<>>,
     lastStop |-> [jobId |-> 0, returned |-> FALSE]]

JobIds == 1..Len(crawler.jobs)

\* `new Set` keeps insertion order and ignores a value it already holds
SetAdd(s, x) == MapSet(s, x)

RECURSIVE SetAddAll(_, _)
SetAddAll(s, xs) == IF xs = <<>> THEN s ELSE SetAddAll(SetAdd(s, Head(xs)), Tail(xs))

\* the constructor's initialize: ZAI.create() resolves, or rejects and is logged
crawlerInitialized(ok) ==
    /\ crawler.initPending
    /\ crawler' = [crawler EXCEPT !.initPending = FALSE, !.zai = ok]
    /\ UNCHANGED <<coordinator, rag, emitter, monitor, chat>>

pageLimit(request) == maxOr(request.maxPages, DefaultMaxPages)

shouldContinueCrawling(job, currentCount) ==
    IF currentCount >= pageLimit(job.request) THEN FALSE
    ELSE getUrlDepth(job.request.url) <= DefaultMaxDepth

\* the while loop of executeCrawl from its condition to the next await: to
\* `await crawlSingleUrl`, to `await delay` when crawlSingleUrl throws for want
\* of zai, or, the loop being over, to the end of executeCrawl
RECURSIVE loop(_, _)
loop(job, time) ==
    IF job.urlsToCrawl # <<>> /\ Len(job.found) < pageLimit(job.request)
    THEN LET currentUrl == Head(job.urlsToCrawl)
             popped == [job EXCEPT !.urlsToCrawl = Tail(@)]
         IN  IF currentUrl \in job.crawledUrls THEN loop(popped, time)
             ELSE IF crawler.zai
             THEN [popped EXCEPT !.crawledUrls = @ \cup {currentUrl},
                                 !.currentUrl = currentUrl,
                                 !.fetched = Append(@, currentUrl),
                                 !.pc = "fetch"]
             ELSE [popped EXCEPT !.crawledUrls = @ \cup {currentUrl},
                                 !.failedPages = @ + 1,
                                 !.pc = "delay"]
    ELSE [job EXCEPT !.results = job.found,
                     !.totalPages = Len(job.found),
                     !.status = "completed",
                     !.endTime = time,
                     !.pc = "done"]

\* startCrawl: the job is stored as pending and executeCrawl runs up to its
\* first await, which makes it crawling
startCrawl(request) ==
    /\ LET job == [request |-> request, status |-> "pending", results |-> <<>>,
                   startTime |-> NoTime, endTime |-> NoTime, error |-> Undefined,
                   totalPages |-> 0, successfulPages |-> 0, failedPages |-> 0,
                   urlsToCrawl |-> <<>>, crawledUrls |-> {}, found |-> <<>>,
                   currentUrl |-> Undefined, fetched |-> <<>>, stoppedAt |-> NoTime,
                   pc |-> "start"]
           crawling == [job EXCEPT !.status = "crawling", !.startTime = now,
                                   !.urlsToCrawl = <<request.url>>]
       IN  crawler' = [crawler EXCEPT !.jobs = Append(@, loop(crawling, now))]
    /\ UNCHANGED <<coordinator, rag, emitter, monitor, chat>>

\* crawlSingleUrl settled: the page is kept and its links are queued, or the
\* failure is counted; then `await delay(100)`
fetchSettled(jobId, ok, links) ==
    /\ jobId \in JobIds
    /\ crawler.jobs[jobId].pc = "fetch"
    /\ LET job == crawler.jobs[jobId]
           results == Append(job.found, job.currentUrl)
           newLinks == SelectSeq(links, LAMBDA link : link \notin job.crawledUrls)
       IN  crawler' = [crawler EXCEPT !.jobs[jobId] =
              IF ok
              THEN [job EXCEPT !.found = results,
                               !.successfulPages = @ + 1,
                               !.urlsToCrawl =
                                   IF shouldContinueCrawling(job, Len(results))
                                   THEN SetAddAll(@, newLinks) ELSE @,
                               !.pc = "delay"]
              ELSE [job EXCEPT !.failedPages = @ + 1, !.pc = "delay"]]
    /\ UNCHANGED <<coordinator, rag, emitter, monitor, chat>>

\* the delay is over: the loop goes on, or executeCrawl finishes the job
delayElapsed(jobId) ==
    /\ jobId \in JobIds
    /\ crawler.jobs[jobId].pc = "delay"
    /\ crawler' = [crawler EXCEPT !.jobs[jobId] = loop(@, now)]
    /\ UNCHANGED <<coordinator, rag, emitter, monitor, chat>>

stopCrawl_any(jobId) ==
    /\ IF jobId \in JobIds
       THEN crawler' = [crawler EXCEPT
                !.jobs[jobId] = [@ EXCEPT !.status = "failed",
                                          !.error = "Crawl stopped by user",
                                          !.endTime = now, !.stoppedAt = now],
                !.lastStop = [jobId |-> jobId, returned |-> TRUE]]
       ELSE crawler' = [crawler EXCEPT !.lastStop = [jobId |-> jobId, returned |-> FALSE]]
    /\ UNCHANGED <<coordinator, rag, emitter, monitor, chat>>

\* stopCrawl, as DELETE calls it; stoppedAt notes when it returned true
stopCrawl(jobId) ==
    /\ IF jobId \in JobIds /\ crawler.jobs[jobId].status \in {"pending", "crawling"}
       THEN crawler' = [crawler EXCEPT
                !.jobs[jobId] = [@ EXCEPT !.status = "failed",
                                          !.error = "Crawl stopped by user",
                                          !.endTime = now, !.stoppedAt = now],
                !.lastStop = [jobId |-> jobId, returned |-> TRUE]]
       ELSE crawler' = [crawler EXCEPT !.lastStop = [jobId |-> jobId, returned |-> FALSE]]
    /\ UNCHANGED <<coordinator, rag, emitter, monitor, chat>>

\* --------------------------------------------------------------- monitor
\* the clock counts hours here
OneHour == 1

OneDay == 24

\* readings of collectMetrics on both sides of the thresholds; the response
\* time stays below 5000 and the error rate below 10
MetricSamples ==
    [cpu_usage : {50, 80, 95}, memory_usage : {50, 96},
     response_time : {100, 4999}, error_rate : {1, 9}]

thresholds ==
    [cpu_warning |-> 70, cpu_critical |-> 90,
     memory_warning |-> 80, memory_critical |-> 95,
     response_time_warning |-> 2000, response_time_critical |-> 5000,
     error_rate_warning |-> 5, error_rate_critical |-> 10]

healthChecks ==
    <<"api_health", "database_health", "agent_health", "memory_health", "cpu_health">>

MonitorInit ==
    [metrics |-> <<>>, alerts |-> <<>>, created |-> 0, elapses |-> 0,
     resolvedOnce |-> {}, lastResolve |-> [alertId |-> 0, returned |-> FALSE]]

\* the types of the alerts checkThresholds creates, in order
level(value, warning, critical) ==
    IF value > critical THEN <<"critical">>
    ELSE IF value > warning THEN <<"warning">>
    ELSE <<>>

checkThresholds(metrics) ==
    level(metrics.cpu_usage, thresholds.cpu_warning, thresholds.cpu_critical)
    \o level(metrics.memory_usage, thresholds.memory_warning, thresholds.memory_critical)
    \o level(metrics.response_time, thresholds.response_time_warning,
             thresholds.response_time_critical)
    \o level(metrics.error_rate, thresholds.error_rate_warning,
             thresholds.error_rate_critical)

\* createAlert for each type of a list: ids are never reused
createAlerts(mon, types, time) ==
    [mon EXCEPT
       !.alerts = @ \o [i \in 1..Len(types) |->
                          [id |-> mon.created + i, type |-> types[i],
                           timestamp |-> time, resolved |-> FALSE,
                           resolved_at |-> NoTime]],
       !.created = @ + Len(types)]

collectMetrics(metrics) ==
    /\ monitor' = createAlerts([monitor EXCEPT !.metrics = Append(@, now)],
                               checkThresholds(metrics), now)
    /\ UNCHANGED <<coordinator, rag, emitter, crawler, chat>>

\* runHealthChecks, the checks of `unhealthy` answering false or throwing
runHealthChecks(unhealthy) ==
    /\ monitor' = createAlerts(monitor,
                     [i \in 1..Len(SelectSeq(healthChecks, LAMBDA s : s \in unhealthy))
                        |-> "error"], now)
    /\ UNCHANGED <<coordinator, rag, emitter, crawler, chat>>

cleanupOldData ==
    /\ monitor' = [monitor EXCEPT
          !.metrics = SelectSeq(@, LAMBDA timestamp : timestamp > now - OneHour),
          !.alerts = SelectSeq(@, LAMBDA alert :
                        ~alert.resolved \/ alert.timestamp > now - OneDay)]
    /\ UNCHANGED <<coordinator, rag, emitter, crawler, chat>>

getAlerts(includeResolved) ==
    IF includeResolved THEN monitor.alerts
    ELSE SelectSeq(monitor.alerts, LAMBDA alert : ~alert.resolved)

\* alerts.find: the index of the first alert with this id, 0 when none
RECURSIVE find(_, _)
find(alerts, alertId) ==
    IF alerts = <<>> THEN 0
    ELSE IF Head(alerts).id = alertId THEN 1
    ELSE LET i == find(Tail(alerts), alertId) IN IF i = 0 THEN 0 ELSE i + 1

resolveAlert_again(alertId) ==
    /\ LET i == find(monitor.alerts, alertId)
       IN  IF i > 0
           THEN monitor' = [monitor EXCEPT
                   !.alerts[i] = [@ EXCEPT !.resolved = ~@, !.resolved_at = now],
                   !.resolvedOnce = @ \cup {alertId},
                   !.lastResolve = [alertId |-> alertId, returned |-> TRUE]]
           ELSE monitor' = [monitor EXCEPT
                   !.lastResolve = [alertId |-> alertId, returned |-> FALSE]]
    /\ UNCHANGED <<coordinator, rag, emitter, crawler, chat>>

\* resolveAlert, as POST calls it for action 'resolve-alert'; resolvedOnce
\* notes the ids it has returned true for
resolveAlert(alertId) ==
    /\ LET i == find(monitor.alerts, alertId)
       IN  IF i > 0 /\ ~monitor.alerts[i].resolved
           THEN monitor' = [monitor EXCEPT
                   !.alerts[i] = [@ EXCEPT !.resolved = TRUE, !.resolved_at = now],
                   !.resolvedOnce = @ \cup {alertId},
                   !.lastResolve = [alertId |-> alertId, returned |-> TRUE]]
           ELSE monitor' = [monitor EXCEPT
                   !.lastResolve = [alertId |-> alertId, returned |-> FALSE]]
    /\ UNCHANGED <<coordinator, rag, emitter, crawler, chat>>

\* an hour or a day passes
Elapse(d) ==
    /\ now' = now + d
    /\ monitor' = [monitor EXCEPT !.elapses = @ + 1]
    /\ UNCHANGED <<agents, taskQueue, activeTasks, isRunning, timers, tasks,
                   agentStatus, zai, initPending, pc, statusHistory,
                   dispatchLog, everMissed, lateCreate, registryCalls,
                   providerCalls, settled, returned, rag, emitter, crawler, chat>>

\* ------------------------------------------------------------------ chat
HistoryLimit == 50

ConversationIds == {"c1", "chat_1"}

\* bodies of POST /api/chat: the message may be empty; without a
\* conversation_id the route makes one up
ChatBodies == [message : {"hi", ""}, conversation_id : {"c1", Undefined}]

\* conversationStore maps an id to an array, 0 when it has none; `arrays` are
\* the arrays made so far, each given by the number of messages it holds
ChatInit ==
    [arrays |-> <<>>, store |-> [c \in ConversationIds |-> 0], requests |-> <<>>,
     accepted |-> 0, lastStatus |-> 0]

\* push on an array of `length` messages
push(length) == length + 1

\* slice(-n) of an array of `length` messages: a new array of the last n
sliceLast(length, n) == IF length <= n THEN length ELSE n

removeAt(s, i) == SubSeq(s, 1, i - 1) \o SubSeq(s, i + 1, Len(s))

\* POST up to `await ZAI.create()`: an empty message is answered 400; else
\* the history of the conversation is found or made and the user message
\* pushed
POST(body) ==
    /\ IF body.message = ""
       THEN chat' = [chat EXCEPT !.lastStatus = 400]
       ELSE LET convId == IF body.conversation_id = Undefined THEN "chat_1"
                          ELSE body.conversation_id
                isNew == chat.store[convId] = 0
                arrays == IF isNew THEN Append(chat.arrays, 0) ELSE chat.arrays
                ref == IF isNew THEN Len(arrays) ELSE chat.store[convId]
            IN  chat' = [chat EXCEPT
                   !.arrays = [arrays EXCEPT ![ref] = push(@)],
                   !.store[convId] = ref,
                   !.requests = Append(@, [convId |-> convId,
                                           conversationHistory |-> ref,
                                           pc |-> "create"]),
                   !.accepted = @ + 1]
    /\ UNCHANGED <<coordinator, rag, emitter, crawler, monitor>>

\* ZAI.create() of line 75 or of determineIfSearchNeeded settled: a rejection
\* reaches the outer catch, which answers 500
createSettled(i, ok) ==
    /\ i \in 1..Len(chat.requests)
    /\ chat.requests[i].pc = "create"
    /\ IF ok
       THEN chat' = [chat EXCEPT !.requests[i].pc = "respond"]
       ELSE chat' = [chat EXCEPT !.requests = removeAt(@, i), !.lastStatus = 500]
    /\ UNCHANGED <<coordinator, rag, emitter, crawler, monitor>>

\* lines 137-158, the completion and the suggestions being there: the reply is
\* pushed to the array this request holds and the store is given the last
\* HistoryLimit messages of it; building the answer then reads
\* follow_up_suggestions, a name that is not declared, and POST answers 500
respond(i) ==
    /\ i \in 1..Len(chat.requests)
    /\ chat.requests[i].pc = "respond"
    /\ LET request == chat.requests[i]
           ref == request.conversationHistory
           pushed == [chat.arrays EXCEPT ![ref] = push(@)]
       IN  IF pushed[ref] > HistoryLimit
           THEN chat' = [chat EXCEPT
                   !.arrays = Append(pushed, sliceLast(pushed[ref], HistoryLimit)),
                   !.store[request.convId] = Len(pushed) + 1,
                   !.requests = removeAt(@, i),
                   !.lastStatus = 500]
           ELSE chat' = [chat EXCEPT
                   !.arrays = pushed,
                   !.requests = removeAt(@, i),
                   !.lastStatus = 500]
    /\ UNCHANGED <<coordinator, rag, emitter, crawler, monitor>>

\* ------------------------------------------------------------------ Init
Init ==
    /\ agents = <<>>
    /\ taskQueue = <<>>
    /\ activeTasks = <<>>
    /\ isRunning = FALSE
    /\ timers = 0
    /\ tasks = <<>>
    /\ agentStatus = [a \in AgentObjs |-> "idle"]
    /\ zai = [a \in AgentObjs |-> FALSE]
    /\ initPending = [a \in AgentObjs |-> a = DefaultAgent]
    /\ pc = <<>>
    /\ now = 0
    /\ statusHistory = <<>>
    /\ dispatchLog = <<>>
    /\ everMissed = FALSE
    /\ lateCreate = FALSE
    /\ registryCalls = 0
    /\ providerCalls = <<>>
    /\ settled = <<>>
    /\ returned = <<>>
    /\ rag = RagIdle
    /\ emitter = EmitterIdle
    /\ crawler = CrawlerInit
    /\ monitor = MonitorInit
    /\ chat = ChatInit

\* --------------------------------------------------------------- actions
Tock ==
    /\ now < MaxClock
    /\ now' = now + 1
    /\ UNCHANGED <<agents, taskQueue, activeTasks, isRunning, timers, tasks,
                   agentStatus, zai, initPending, pc, statusHistory,
                   dispatchLog, everMissed, lateCreate, registryCalls>>
    /\ UNCHANGED <<providerCalls, settled, returned, rag, emitter, crawler, monitor, chat>>

start ==
    /\ IF isRunning
       THEN UNCHANGED <<isRunning, timers>>
       ELSE /\ isRunning' = TRUE
            /\ timers' = timers + 1
    /\ UNCHANGED <<agents, taskQueue, activeTasks, tasks, agentStatus, zai,
                   initPending, pc, now, statusHistory, dispatchLog, everMissed,
                   lateCreate, registryCalls>>
    /\ UNCHANGED <<providerCalls, settled, returned, rag, emitter, crawler, monitor, chat>>

stop_keepsTimer ==
    /\ isRunning' = FALSE
    /\ UNCHANGED <<agents, taskQueue, activeTasks, tasks, agentStatus, zai,
                   initPending, pc, now, statusHistory, dispatchLog, everMissed,
                   lateCreate, registryCalls, timers>>
    /\ UNCHANGED <<providerCalls, settled, returned, rag, emitter, crawler, monitor, chat>>

stop ==
    /\ IF ~isRunning
       THEN UNCHANGED <<isRunning, timers>>
       ELSE /\ isRunning' = FALSE
            /\ timers' = 0
    /\ UNCHANGED <<agents, taskQueue, activeTasks, tasks, agentStatus, zai,
                   initPending, pc, now, statusHistory, dispatchLog, everMissed,
                   lateCreate, registryCalls>>
    /\ UNCHANGED <<providerCalls, settled, returned, rag, emitter, crawler, monitor, chat>>

NewTask(type, payload, priority) ==
    [type |-> type, payload |-> payload, priority |-> priority,
     submitted |-> priority,
     status |-> "pending", assignedAgent |-> Undefined, createdAt |-> now,
     startedAt |-> NoTime, completedAt |-> NoTime,
     result |-> Undefined, error |-> Undefined]

createTask(type, payload, priority) ==
    /\ LET id == Len(tasks) + 1
           ts == Append(tasks, NewTask(type, payload, priority))
       IN  /\ tasks' = ts
           /\ taskQueue' = sortTaskQueue(ts, Append(taskQueue, id))
           /\ pc' = Append(pc, "queued")
           /\ statusHistory' = Append(statusHistory, <<"pending">>)
           /\ providerCalls' = Append(providerCalls, {})
           /\ settled' = Append(settled, NotSettled)
           /\ returned' = Append(returned, <<>>)
    /\ lateCreate' = (lateCreate \/ dispatchLog # <<>> \/ everMissed)
    /\ UNCHANGED <<agents, activeTasks, isRunning, timers, agentStatus, zai,
                   initPending, now, dispatchLog, everMissed, registryCalls, rag, emitter, crawler, monitor, chat>>

\* ------------------------------------------------------ agent registry
\* registerAgent up to `await agent.initialize()`, itself suspended in
\* `await ZAI.create()`; one initialisation in flight per agent object
registerAgent(a) ==
    /\ ~initPending[a]
    /\ initPending' = [initPending EXCEPT ![a] = TRUE]
    /\ registryCalls' = registryCalls + 1
    /\ UNCHANGED <<agents, taskQueue, activeTasks, isRunning, timers, tasks,
                   agentStatus, zai, pc, now, statusHistory, dispatchLog,
                   everMissed, lateCreate>>
    /\ UNCHANGED <<providerCalls, settled, returned, rag, emitter, crawler, monitor, chat>>

\* ZAI.create() resolved: initialize() sets idle, registerAgent stores the agent
initializeResolved(a) ==
    /\ initPending[a]
    /\ initPending' = [initPending EXCEPT ![a] = FALSE]
    /\ zai' = [zai EXCEPT ![a] = TRUE]
    /\ agentStatus' = [agentStatus EXCEPT ![a] = "idle"]
    /\ agents' = MapSet(agents, a)
    /\ UNCHANGED <<taskQueue, activeTasks, isRunning, timers, tasks, pc, now,
                   statusHistory, dispatchLog, everMissed, lateCreate, registryCalls>>
    /\ UNCHANGED <<providerCalls, settled, returned, rag, emitter, crawler, monitor, chat>>

initializeRejected_registers(a) ==
    /\ initPending[a]
    /\ initPending' = [initPending EXCEPT ![a] = FALSE]
    /\ agentStatus' = [agentStatus EXCEPT ![a] = "error"]
    /\ agents' = MapSet(agents, a)
    /\ UNCHANGED <<taskQueue, activeTasks, isRunning, timers, tasks, zai,
                   pc, now, statusHistory, dispatchLog, everMissed, lateCreate, registryCalls>>
    /\ UNCHANGED <<providerCalls, settled, returned, rag, emitter, crawler, monitor, chat>>

\* ZAI.create() rejected: initialize() sets error and rethrows, nothing is stored
initializeRejected(a) ==
    /\ initPending[a]
    /\ initPending' = [initPending EXCEPT ![a] = FALSE]
    /\ agentStatus' = [agentStatus EXCEPT ![a] = "error"]
    /\ UNCHANGED <<agents, taskQueue, activeTasks, isRunning, timers, tasks, zai,
                   pc, now, statusHistory, dispatchLog, everMissed, lateCreate, registryCalls>>
    /\ UNCHANGED <<providerCalls, settled, returned, rag, emitter, crawler, monitor, chat>>

shutdownStatus_toggle(s) == IF s = "idle" THEN "error" ELSE "idle"

\* SearchAgent.shutdown: setStatus('idle')
shutdownStatus(s) == "idle"

\* SearchAgent.shutdown on an agent object, given as its status and whether
\* it holds a ZAI handle
shutdown(agent) == [status |-> shutdownStatus(agent.status), zai |-> FALSE]

\* the registry and the agent objects
Registry == [agents |-> agents, agentStatus |-> agentStatus, zai |-> zai]

\* what unregisterAgent(a) leaves: an id that is not registered changes nothing
unregistered(reg, a) ==
    IF a \in SeqToSet(reg.agents)
    THEN LET down == shutdown([status |-> reg.agentStatus[a], zai |-> reg.zai[a]])
         IN  [agents |-> Remove(reg.agents, a),
              agentStatus |-> [reg.agentStatus EXCEPT ![a] = down.status],
              zai |-> [reg.zai EXCEPT ![a] = down.zai]]
    ELSE reg

unregisterAgent(a) ==
    /\ agentStatus' = unregistered(Registry, a).agentStatus
    /\ zai' = unregistered(Registry, a).zai
    /\ agents' = unregistered(Registry, a).agents
    /\ registryCalls' = registryCalls + 1
    /\ UNCHANGED <<taskQueue, activeTasks, isRunning, timers, tasks, initPending,
                   pc, now, statusHistory, dispatchLog, everMissed, lateCreate>>
    /\ UNCHANGED <<providerCalls, settled, returned, rag, emitter, crawler, monitor, chat>>

\* ------------------------------------------------------------ dispatching
shift_peek(q) == q

\* what Array.prototype.shift leaves in the queue
shift(q) == Tail(q)

executeTaskEntry_noStatus(task) == task

\* executeTask, line 221
executeTaskEntry(task) == [task EXCEPT !.status = "in_progress"]

\* the values task.status takes when it goes through the records in order
Changes(old, seq) ==
    LET RECURSIVE Go(_, _)
        Go(prev, s) ==
            IF s = <<>> THEN <<>>
            ELSE IF Head(s) = prev THEN Go(prev, Tail(s))
            ELSE <<Head(s)>> \o Go(Head(s), Tail(s))
    IN  Go(old, seq)

\* SearchAgent.processMessage's switch: the error thrown before any provider
\* call, or "await" when the handler suspends in a provider call
messageOutcome(type, payload, a) ==
    LET h == handlerOf(type, payload)
    IN  IF h = "web" THEN IF zai[a] THEN "await" ELSE "ZAI not initialized"
        ELSE IF h \in {"vector", "hybrid"} THEN "await"
        ELSE h

\* processMessage's finally block
processMessageFinally(s) == "idle"

executeTaskFinally_busy(s) == "busy"

\* executeTask's finally block
executeTaskFinally(s) == "idle"

finishTask_both(task, outcome, time) ==
    [task EXCEPT !.status = IF outcome.ok THEN "completed" ELSE "failed",
                 !.completedAt = time,
                 !.result = "results",
                 !.error = IF outcome.ok THEN @ ELSE outcome.error]

finishTask_restamp(task, outcome, time) ==
    [task EXCEPT !.status = IF outcome.ok THEN "completed" ELSE "failed",
                 !.startedAt = time,
                 !.completedAt = time,
                 !.result = IF outcome.ok THEN "results" ELSE @,
                 !.error = IF outcome.ok THEN @ ELSE outcome.error]

\* processTaskQueue after executeTask returned or threw
finishTask(task, outcome, time) ==
    IF outcome.ok
    THEN [task EXCEPT !.status = "completed", !.completedAt = time,
                      !.result = "results"]
    ELSE [task EXCEPT !.status = "failed", !.completedAt = time,
                      !.error = outcome.error]

\* one setInterval callback.  processTaskQueue runs to `await sendMessage`,
\* which resumes in a microtask, so processMessage is entered before any other
\* callback can run: the action ends where the handler awaits its provider, or,
\* when processMessage throws before that, after lines 182-191
processTaskQueue ==
    /\ timers > 0
    /\ taskQueue # <<>>
    /\ LET task == Head(taskQueue)
           rest == shift(taskQueue)
           agent == findSuitableAgent(tasks[task].type)
       IN  IF agent = NoAgent
           THEN /\ IF tasks[task].priority # "low"
                   THEN /\ tasks' = [tasks EXCEPT ![task].priority = "low"]
                        /\ taskQueue' = Append(rest, task)
                   ELSE /\ taskQueue' = rest
                        /\ UNCHANGED tasks
                /\ everMissed' = TRUE
                /\ UNCHANGED <<activeTasks, agentStatus, pc, statusHistory,
                               dispatchLog, providerCalls>>
           ELSE LET assigned == [tasks[task] EXCEPT !.assignedAgent = agent,
                                                    !.status = "assigned",
                                                    !.startedAt = now]
                    running == executeTaskEntry(assigned)
                    outcome == messageOutcome(running.type, running.payload, agent)
                    failed == finishTask(running, Rejected(outcome), now)
                IN  /\ taskQueue' = rest
                    /\ dispatchLog' = Append(dispatchLog, task)
                    /\ UNCHANGED everMissed
                    /\ IF outcome = "await"
                       THEN /\ tasks' = [tasks EXCEPT ![task] = running]
                            /\ activeTasks' = MapSet(activeTasks, task)
                            /\ agentStatus' = [agentStatus EXCEPT ![agent] = "busy"]
                            /\ pc' = [pc EXCEPT ![task] = "provider"]
                            /\ providerCalls' = [providerCalls EXCEPT ![task] =
                                  callsStarted(running.type, running.payload, zai[agent])]
                            /\ statusHistory' = [statusHistory EXCEPT ![task] =
                                  @ \o Changes(tasks[task].status,
                                         <<assigned.status, running.status>>)]
                       ELSE /\ tasks' = [tasks EXCEPT ![task] = failed]
                            /\ activeTasks' = Remove(MapSet(activeTasks, task), task)
                            /\ agentStatus' = [agentStatus EXCEPT ![agent] =
                                  executeTaskFinally(processMessageFinally("busy"))]
                            /\ pc' = [pc EXCEPT ![task] = "done"]
                            /\ UNCHANGED providerCalls
                            /\ statusHistory' = [statusHistory EXCEPT ![task] =
                                  @ \o Changes(tasks[task].status,
                                         <<assigned.status, running.status,
                                           failed.status>>)]
    /\ UNCHANGED <<agents, isRunning, timers, zai, initPending, now, lateCreate,
                   registryCalls, settled, returned, rag, emitter, crawler, monitor, chat>>

\* the provider calls of task t settle: the sub-calls resolve or reject, the
\* finally blocks of processMessage and executeTask set the agent idle, then
\* processTaskQueue resumes, lines 177-191
searchSettled(t, web, vector) ==
    /\ t \in TaskIds
    /\ pc[t] = "provider"
    /\ LET task == tasks[t]
           webCalled == \E c \in providerCalls[t] : c.provider = "web_search"
           sub == subcalls(task.type, task.payload, webCalled, web, vector, now)
           outcome == searchOutcome(task.type, task.payload, sub)
       IN  /\ tasks' = [tasks EXCEPT ![t] = finishTask(task, outcome, now)]
           /\ settled' = [settled EXCEPT ![t] = sub]
           /\ returned' = [returned EXCEPT ![t] = outcome.value]
           /\ providerCalls' = [providerCalls EXCEPT ![t] =
                 @ \cup indexCalls(task.type, task.payload, vector)]
           /\ agentStatus' = [agentStatus EXCEPT ![task.assignedAgent] =
                 executeTaskFinally(processMessageFinally(@))]
    /\ activeTasks' = Remove(activeTasks, t)
    /\ pc' = [pc EXCEPT ![t] = "done"]
    /\ statusHistory' = [statusHistory EXCEPT ![t] =
          @ \o Changes(tasks[t].status, <<tasks'[t].status>>)]
    /\ UNCHANGED <<agents, taskQueue, isRunning, timers, zai, initPending, now,
                   dispatchLog, everMissed, lateCreate, registryCalls, rag, emitter, crawler, monitor, chat>>

\* the provider call of a task settles with the default answer, or fails
providerSettled(t, ok) ==
    searchSettled(t, IF ok THEN DefaultWebResponse ELSE Failure,
                     IF ok THEN DefaultVectorResponse ELSE Failure)

\* --------------------------------------------------------------- queries
\* getTask: the tasks found, none when the code returns undefined
getTask(taskId) ==
    IF taskId \in SeqToSet(activeTasks) THEN {tasks[taskId]}
    ELSE {tasks[t] : t \in {u \in SeqToSet(taskQueue) : u = taskId}}

\* getTasks: a filter field that is Undefined is not applied
getTasks(filter) ==
    LET all == taskQueue \o activeTasks
        Keep(t) == /\ filter.status = Undefined \/ tasks[t].status = filter.status
                   /\ filter.type = Undefined \/ tasks[t].type = filter.type
                   /\ filter.agentId = Undefined
                        \/ tasks[t].assignedAgent = filter.agentId
    IN  StableSort(tasks, SelectSeq(all, Keep))

NoFilter == [status |-> Undefined, type |-> Undefined, agentId |-> Undefined]

getStats ==
    LET allTasks == getTasks(NoFilter)
        With(st) == Len(SelectSeq(allTasks, LAMBDA t : tasks[t].status = st))
    IN  [totalAgents |-> Len(agents),
         activeAgents |-> Len(SelectSeq(agents, LAMBDA a : agentStatus[a] = "busy")),
         totalTasks |-> Len(allTasks),
         pendingTasks |-> With("pending"),
         activeTasks |-> With("in_progress"),
         completedTasks |-> With("completed"),
         failedTasks |-> With("failed")]

\* ------------------------------------------------------ specifications
\* every operation, any task type and priority, both agent objects
Next ==
    \/ Tock
    \/ start
    \/ stop
    \/ /\ Len(tasks) < MaxTasks
       /\ \E type \in TaskTypes, priority \in Priorities : createTask(type, DefaultPayload, priority)
    \/ /\ registryCalls < MaxRegistryCalls
       /\ \E a \in AgentObjs : registerAgent(a)
    \/ \E a \in AgentObjs : initializeResolved(a)
    \/ \E a \in AgentObjs : initializeRejected(a)
    \/ /\ registryCalls < MaxRegistryCalls
       /\ \E a \in SeqToSet(agents) : unregisterAgent(a)
    \/ processTaskQueue
    \/ \E t \in TaskIds, ok \in BOOLEAN : providerSettled(t, ok)

Spec == Init /\ [][Next]_vars

\* submission, dispatch ticks and completions with the agent the constructor
\* registers: no later registry call, no clock step
NextDispatch ==
    \/ start
    \/ stop
    \/ /\ Len(tasks) < MaxTasks
       /\ \E type \in TaskTypes, priority \in Priorities : createTask(type, DefaultPayload, priority)
    \/ initializeResolved(DefaultAgent)
    \/ initializeRejected(DefaultAgent)
    \/ processTaskQueue
    \/ \E t \in TaskIds, ok \in BOOLEAN : providerSettled(t, ok)

SpecDispatch == Init /\ [][NextDispatch]_vars

\* a batch of tasks of one type, the coordinator being started once the agent
\* the constructor registers is ready
NextBatch ==
    \/ agents # <<>> /\ start
    \/ /\ Len(tasks) < MaxBatch
       /\ \E priority \in Priorities : createTask("web-search", DefaultPayload, priority)
    \/ initializeResolved(DefaultAgent)
    \/ processTaskQueue
    \/ \E t \in TaskIds, ok \in BOOLEAN : providerSettled(t, ok)

SpecBatch == Init /\ [][NextBatch]_vars

\* tasks of type 'search' with a SearchQuery payload, the providers answering
\* with any response
NextSearch ==
    \/ start
    \/ /\ Len(tasks) < MaxSearchTasks
       /\ \E payload \in SearchPayloads : createTask("search", payload, "medium")
    \/ initializeResolved(DefaultAgent)
    \/ processTaskQueue
    \/ \E t \in TaskIds, web \in WebResponses, vector \in VectorResponses :
          searchSettled(t, web, vector)

SpecSearch == Init /\ [][NextSearch]_vars

\* the default agent registered, used and unregistered, unregisterAgent
\* called for any id once the constructor's registration has settled
NextRegistry ==
    \/ start
    \/ /\ Len(tasks) < MaxTasks
       /\ createTask("web-search", DefaultPayload, "medium")
    \/ initializeResolved(DefaultAgent)
    \/ initializeRejected(DefaultAgent)
    \/ processTaskQueue
    \/ \E t \in TaskIds, ok \in BOOLEAN : providerSettled(t, ok)
    \/ /\ registryCalls < MaxUnregisters
       /\ ~initPending[DefaultAgent]
       /\ \E a \in AgentObjs : unregisterAgent(a)

SpecRegistry == Init /\ [][NextRegistry]_vars

\* a second search agent registered next to the one of the constructor
NextTwoWorkers ==
    \/ start
    \/ /\ Len(tasks) < MaxTasks
       /\ createTask("web-search", DefaultPayload, "medium")
    \/ \E a \in AgentObjs : a \notin SeqToSet(agents) /\ registerAgent(a)
    \/ \E a \in AgentObjs : initializeResolved(a)
    \/ processTaskQueue
    \/ \E t \in TaskIds, ok \in BOOLEAN : providerSettled(t, ok)

SpecTwoWorkers == Init /\ [][NextTwoWorkers]_vars

\* tasks of the types the search agent advertises, its providers succeeding
NextAdvertised ==
    \/ start
    \/ /\ Len(tasks) < MaxTasks
       /\ \E type \in capabilities(DefaultAgent).specialized :
             createTask(type, DefaultPayload, "medium")
    \/ initializeResolved(DefaultAgent)
    \/ processTaskQueue
    \/ \E t \in TaskIds : providerSettled(t, TRUE)

SpecAdvertised == Init /\ [][NextAdvertised]_vars

\* RAGPipeline.processQuery calls, one after the other
NextPipeline ==
    \/ \E request \in RagRequests, vector \in VectorResponses :
          processQuery(request, vector)
    \/ \E web \in RankedResponses : webSearchSettled(web)
    \/ \E completion \in Completions : completionSettled(completion)

SpecPipeline == Init /\ [][NextPipeline]_vars

\* calculateConfidenceScore on contexts of every size up to MaxContext: the
\* pipeline stands at step 5 with a combined list of scores within [0, 1]
Contexts ==
    {[i \in 1..Len(scores) |->
         [id |-> "web_" \o ToString(i - 1), score |-> scores[i],
          source_type |-> "web"]] :
       scores \in {c \in UNION {[1..n -> ScoreSamples] : n \in 1..MaxContext} :
                     \A i, j \in 1..Len(c) : i < j => c[i] >= c[j]}}

InitConfidence ==
    /\ agents = <<>>
    /\ taskQueue = <<>>
    /\ activeTasks = <<>>
    /\ isRunning = FALSE
    /\ timers = 0
    /\ tasks = <<>>
    /\ agentStatus = [a \in AgentObjs |-> "idle"]
    /\ zai = [a \in AgentObjs |-> FALSE]
    /\ initPending = [a \in AgentObjs |-> a = DefaultAgent]
    /\ pc = <<>>
    /\ now = 0
    /\ statusHistory = <<>>
    /\ dispatchLog = <<>>
    /\ everMissed = FALSE
    /\ lateCreate = FALSE
    /\ registryCalls = 0
    /\ providerCalls = <<>>
    /\ settled = <<>>
    /\ returned = <<>>
    /\ \E c \in Contexts :
          rag = [RagIdle EXCEPT !.pc = "generate", !.sources = c]
    /\ emitter = EmitterIdle
    /\ crawler = CrawlerInit
    /\ monitor = MonitorInit
    /\ chat = ChatInit

NextConfidence == \E completion \in Completions : completionSettled(completion)

SpecConfidence == InitConfidence /\ [][NextConfidence]_vars

\* web searches of any priority dispatched and settled while the clock advances
NextClock ==
    \/ Tock
    \/ start
    \/ /\ Len(tasks) < MaxTasks
       /\ \E priority \in Priorities : createTask("web-search", DefaultPayload, priority)
    \/ initializeResolved(DefaultAgent)
    \/ processTaskQueue
    \/ \E t \in TaskIds, ok \in BOOLEAN : providerSettled(t, ok)

SpecClock == Init /\ [][NextClock]_vars

\* one web search asking for MaxPositions results, the provider answering
\* with entries from any host and of any date
NextRelevance ==
    \/ start
    \/ /\ tasks = <<>>
       /\ createTask("web-search", [DefaultPayload EXCEPT !.maxResults = MaxPositions],
                     "medium")
    \/ initializeResolved(DefaultAgent)
    \/ processTaskQueue
    \/ \E t \in TaskIds, web \in FlaggedResponses :
          searchSettled(t, web, DefaultVectorResponse)

SpecRelevance == Init /\ [][NextRelevance]_vars

\* tasks of type 'search' whose payload may lack fields or name an unknown mode
NextValidation ==
    \/ start
    \/ /\ Len(tasks) < MaxTasks
       /\ \E payload \in ValidationPayloads : createTask("search", payload, "medium")
    \/ initializeResolved(DefaultAgent)
    \/ processTaskQueue
    \/ \E t \in TaskIds, ok \in BOOLEAN : providerSettled(t, ok)

SpecValidation == Init /\ [][NextValidation]_vars

\* one agent object: handlers registered and removed, its status set
NextEvents ==
    \/ /\ Len(emitter.eventHandlers) < MaxHandlers
       /\ \E handler \in Handlers : on(handler)
    \/ \E handler \in Handlers : off(handler)
    \/ \E status \in {"idle", "busy", "error"} : setStatus(status)

SpecEvents == Init /\ [][NextEvents]_vars

\* the coordinator started and stopped at any time; a provider call that was
\* made settles at some time, and its continuation then runs
NextStop ==
    \/ start
    \/ stop
    \/ /\ Len(tasks) < MaxTasks
       /\ \E priority \in {"medium", "low"} : createTask("web-search", DefaultPayload, priority)
    \/ initializeResolved(DefaultAgent)
    \/ processTaskQueue
    \/ \E t \in TaskIds, ok \in BOOLEAN : providerSettled(t, ok)

SpecStop ==
    /\ Init
    /\ [][NextStop]_vars
    /\ \A t \in 1..MaxTasks : WF_vars(\E ok \in BOOLEAN : providerSettled(t, ok))

\* crawl jobs started, run and stopped while the clock advances
NextCrawl ==
    \/ Tock
    \/ \E ok \in BOOLEAN : crawlerInitialized(ok)
    \/ /\ Len(crawler.jobs) < MaxJobs
       /\ \E request \in CrawlRequests : startCrawl(request)
    \/ \E jobId \in JobIds, ok \in BOOLEAN, links \in LinkLists :
          fetchSettled(jobId, ok, links)
    \/ \E jobId \in JobIds : delayElapsed(jobId)
    \/ \E jobId \in 1..(MaxJobs + 1) : stopCrawl(jobId)

SpecCrawl == Init /\ [][NextCrawl]_vars

\* crawl jobs started, run and stopped, a page linking to "b" or to nothing
NextStopCrawl ==
    \/ \E ok \in BOOLEAN : crawlerInitialized(ok)
    \/ /\ Len(crawler.jobs) < MaxJobs
       /\ \E request \in CrawlRequests : startCrawl(request)
    \/ \E jobId \in JobIds, ok \in BOOLEAN, links \in {<<>>, <<"b">>} :
          fetchSettled(jobId, ok, links)
    \/ \E jobId \in JobIds : delayElapsed(jobId)
    \/ \E jobId \in 1..(MaxJobs + 1) : stopCrawl(jobId)

SpecStopCrawl == Init /\ [][NextStopCrawl]_vars

\* the three timers of the monitor firing and alerts being resolved, an hour
\* or a day passing once
NextMonitor ==
    \/ /\ monitor.elapses = 0
       /\ \E d \in {OneHour, OneDay} : Elapse(d)
    \/ /\ Len(monitor.metrics) < MaxMetrics
       /\ \E metrics \in MetricSamples :
             /\ monitor.created + Len(checkThresholds(metrics)) <= MaxAlerts
             /\ collectMetrics(metrics)
    \/ \E unhealthy \in SUBSET SeqToSet(healthChecks) :
          /\ unhealthy # {}
          /\ monitor.created + Cardinality(unhealthy) <= MaxAlerts
          /\ runHealthChecks(unhealthy)
    \/ cleanupOldData
    \/ \E alertId \in 1..(MaxAlerts + 1) : resolveAlert(alertId)

SpecMonitor == Init /\ [][NextMonitor]_vars

\* chat requests, at most MaxInFlight at a time
NextChat ==
    \/ /\ chat.accepted < MaxChats
       /\ Len(chat.requests) < MaxInFlight
       /\ \E body \in ChatBodies : POST(body)
    \/ \E i \in 1..MaxInFlight, ok \in BOOLEAN : createSettled(i, ok)
    \/ \E i \in 1..MaxInFlight : respond(i)

SpecChat == Init /\ [][NextChat]_vars

\* ---------------------------------------------------------------- claims
IsPrefix(s, t) == Len(s) <= Len(t) /\ SubSeq(t, 1, Len(s)) = s

Terminal == {"completed", "failed"}

\* C1: the values task.status takes form a prefix of
\* pending, assigned, in_progress, (completed or failed): no step is skipped
\* and the status never goes back
C1_StatusLifecycle ==
    \A t \in TaskIds :
        /\ tasks[t].status = statusHistory[t][Len(statusHistory[t])]
        /\ \E fin \in Terminal :
              IsPrefix(statusHistory[t], <<"pending", "assigned", "in_progress", fin>>)

\* one task went all the way to completed, another to failed
C1_Witness ==
    \E t, u \in TaskIds :
        /\ statusHistory[t] = <<"pending", "assigned", "in_progress", "completed">>
        /\ statusHistory[u] = <<"pending", "assigned", "in_progress", "failed">>

Descending(log) ==
    \A i, j \in 1..Len(log) :
        i < j => priorityOrder(tasks[log[i]].submitted)
                    >= priorityOrder(tasks[log[j]].submitted)

\* C2 as stated: tasks of one type submitted before the first dispatch tick,
\* one worker: they are handed over in descending order of submitted priority,
\* however long each execution lasts
C2_Original == ~lateCreate => Descending(dispatchLog)

\* C2 as amended: the same, provided every dispatch tick so far found the
\* worker idle
C2_DescendingWhileIdle == (~lateCreate /\ ~everMissed) => Descending(dispatchLog)

\* low, high, critical submitted in that order and handed over in reverse
C2_Witness ==
    /\ ~lateCreate
    /\ ~everMissed
    /\ Len(tasks) = 3
    /\ tasks[1].submitted = "low"
    /\ tasks[2].submitted = "high"
    /\ tasks[3].submitted = "critical"
    /\ dispatchLog = <<3, 2, 1>>

\* C3: taskQueue is ordered by priority rank, equal priorities by ascending
\* createdAt, in every reachable state
C3_QueueOrdered ==
    \A i, j \in 1..Len(taskQueue) :
        i < j => compareTasks(tasks, taskQueue[i], taskQueue[j]) <= 0

\* C4: a dispatch tick that pops a task and finds no suitable idle worker
\* leaves the task in taskQueue, pending, with priority low
C4_DemotedNotDropped ==
    [][\A t \in TaskIds :
          (/\ taskQueue # <<>>
           /\ Head(taskQueue) = t
           /\ findSuitableAgent(tasks[t].type) = NoAgent
           /\ processTaskQueue)
          => /\ t \in SeqToSet(taskQueue')
             /\ tasks'[t].status = "pending"
             /\ tasks'[t].priority = "low"]_vars

\* C5: no submitted task leaves the system while still pending (and so every
\* task can still reach completed or failed)
C5_NoPendingTaskLost ==
    \A t \in TaskIds : tasks[t].status = "pending" => t \in SeqToSet(taskQueue)

\* C6: no two tasks in progress have the same assignedAgent
C6_OneTaskPerWorker ==
    \A t, u \in TaskIds :
        (t # u /\ tasks[t].status = "in_progress" /\ tasks[u].status = "in_progress")
        => tasks[t].assignedAgent # tasks[u].assignedAgent

\* C7: a task is only ever handed to a worker whose capability set contains
\* the task's type
C7_CapableWorker ==
    \A t \in TaskIds :
        tasks[t].assignedAgent # Undefined
        => HasCapability(tasks[t].assignedAgent, tasks[t].type)

\* C8: getTask still finds a task issued by createTask after the task has
\* reached completed or failed, and shows it with its result or error
C8_GetTaskFindsTerminal ==
    \A id \in TaskIds :
        tasks[id].status \in Terminal
        => /\ getTask(id) = {tasks[id]}
           /\ tasks[id].status = "completed" => tasks[id].result # Undefined
           /\ tasks[id].status = "failed" => tasks[id].error # Undefined

\* C9: once assignedAgent is set it never changes, and an assigned task never
\* re-enters taskQueue and is never handed over again
C9_AssignedOnce ==
    [][\A t \in TaskIds :
          /\ tasks[t].assignedAgent # Undefined
             => tasks'[t].assignedAgent = tasks[t].assignedAgent
          /\ tasks'[t].assignedAgent # Undefined
             => /\ t \notin SeqToSet(taskQueue')
                /\ Count(dispatchLog', t) = 1]_vars

\* a task is terminal and a later tick handed over another task
C9_Witness ==
    \E t, u \in TaskIds :
        /\ dispatchLog = <<t, u>>
        /\ tasks[t].status \in Terminal
        /\ tasks[u].status = "in_progress"

\* C10: getStats counts the tasks that have reached completed and failed
C10_StatsCountTerminal ==
    /\ getStats.completedTasks
         = Cardinality({t \in TaskIds : tasks[t].status = "completed"})
    /\ getStats.failedTasks
         = Cardinality({t \in TaskIds : tasks[t].status = "failed"})

\* ------------------------------------------------- claims on search tasks
Handler(t) == handlerOf(tasks[t].type, tasks[t].payload)

Hybrid(t) == Handler(t) = "hybrid" /\ pc[t] = "done"

\* C11: a task whose payload has an empty query is refused by createTask: it
\* is never queued, never assigned to a worker, and no provider is called
\* for it
C11_EmptyQueryRejected ==
    \A t \in TaskIds :
        tasks[t].payload.query = "" =>
            /\ t \notin SeqToSet(taskQueue)
            /\ tasks[t].assignedAgent = Undefined
            /\ providerCalls[t] = {}

Survivor(t) ==
    IF settled[t].web.ok THEN settled[t].web.value ELSE settled[t].vector.value

SortedByScore(results) ==
    \A i, j \in 1..Len(results) :
        i < j => results[i].relevanceScore >= results[j].relevanceScore

Least(a, b) == IF a < b THEN a ELSE b

\* C12: when exactly one sub-call of a hybrid search fails, the task is
\* completed and its result holds the results of the other sub-call and
\* nothing else, best first, cut to the requested maximum
C12_HybridPartial ==
    \A t \in TaskIds :
        (Hybrid(t) /\ settled[t].web.ok # settled[t].vector.ok) =>
            /\ tasks[t].status = "completed"
            /\ tasks[t].result # Undefined
            /\ SortedByScore(returned[t])
            /\ Len(returned[t])
                 = Least(Len(Survivor(t)),
                         maxOr(tasks[t].payload.maxResults, DefaultWebLimit))
            /\ \A i \in 1..Len(returned[t]) :
                  /\ returned[t][i] \in SeqToSet(Survivor(t))
                  /\ \A x \in SeqToSet(Survivor(t)) \ SeqToSet(returned[t]) :
                        x.relevanceScore <= returned[t][i].relevanceScore

\* the vector sub-call failed and the web results were cut; the web sub-call
\* failed and the vector results were kept
C12_Witness ==
    /\ \E t \in TaskIds :
          /\ Hybrid(t) /\ settled[t].web.ok /\ ~settled[t].vector.ok
          /\ Len(returned[t]) >= 1
          /\ Len(returned[t]) < Len(Survivor(t))
          /\ tasks[t].status = "completed"

\* C13: a hybrid search whose two sub-calls both fail ends failed with its
\* error set
C13_HybridBothFail ==
    \A t \in TaskIds :
        (Hybrid(t) /\ ~settled[t].web.ok /\ ~settled[t].vector.ok) =>
            /\ tasks[t].status = "failed"
            /\ tasks[t].error # Undefined

ProviderFailed(t) ==
    /\ pc[t] = "done"
    /\ \/ Handler(t) = "web" /\ settled[t].webFailed
       \/ Handler(t) = "vector" /\ settled[t].vectorFailed

\* C14: a web-only or vector-only search whose provider call fails ends
\* failed, with its error set and no result
C14_ProviderFailureFails ==
    \A t \in TaskIds :
        ProviderFailed(t) =>
            /\ tasks[t].status = "failed"
            /\ tasks[t].error # Undefined
            /\ tasks[t].result = Undefined

C14_Witness ==
    \E t \in TaskIds :
        /\ ProviderFailed(t) /\ Handler(t) = "web"
        /\ tasks[t].status = "failed"

\* C15: a completed task has a result and no error, a failed task an error
\* and no result, and a task that is not terminal has neither
C15_ResultXorError ==
    \A t \in TaskIds :
        /\ tasks[t].status = "completed" =>
              tasks[t].result # Undefined /\ tasks[t].error = Undefined
        /\ tasks[t].status = "failed" =>
              tasks[t].error # Undefined /\ tasks[t].result = Undefined
        /\ tasks[t].status \notin Terminal =>
              tasks[t].result = Undefined /\ tasks[t].error = Undefined

\* one task completed and one failed in its provider call
C15_Witness ==
    \E t, u \in TaskIds :
        /\ tasks[t].status = "completed" /\ tasks[t].result = "results"
        /\ tasks[u].status = "failed" /\ tasks[u].error = "provider error"

\* C16: createdAt is the time of createTask and never changes; startedAt is
\* written once, when the task leaves pending, and completedAt once, when it
\* becomes terminal; a task put back in the queue with priority low keeps its
\* createdAt and has no startedAt
C16_StampsWrittenOnce ==
    [][/\ Len(tasks') > Len(tasks) =>
            /\ tasks'[Len(tasks')].createdAt = now
            /\ tasks'[Len(tasks')].startedAt = NoTime
            /\ tasks'[Len(tasks')].completedAt = NoTime
       /\ \A t \in TaskIds :
            /\ tasks'[t].createdAt = tasks[t].createdAt
            /\ IF tasks[t].status = "pending" /\ tasks'[t].status # "pending"
               THEN tasks'[t].startedAt = now
               ELSE tasks'[t].startedAt = tasks[t].startedAt
            /\ IF tasks[t].status \notin Terminal /\ tasks'[t].status \in Terminal
               THEN tasks'[t].completedAt = now
               ELSE tasks'[t].completedAt = tasks[t].completedAt
            /\ tasks'[t].status = "pending" => tasks'[t].startedAt = NoTime
            /\ tasks'[t].status \notin Terminal => tasks'[t].completedAt = NoTime
            /\ tasks'[t].priority # tasks[t].priority =>
                  tasks'[t].status = "pending" /\ tasks'[t].startedAt = NoTime
      ]_vars

\* a task started and finished after the clock moved on keeps its three
\* stamps, while a demoted task waits with createdAt only
C16_Witness ==
    \E t, u \in TaskIds :
        /\ tasks[t].status \in Terminal
        /\ tasks[t].createdAt = 0 /\ tasks[t].startedAt = 0
        /\ tasks[t].completedAt = 1
        /\ tasks[u].priority # tasks[u].submitted
        /\ tasks[u].status = "pending" /\ tasks[u].startedAt = NoTime
        /\ tasks[u].createdAt = 0 /\ now = 1

\* C17: in the state where a task becomes completed or failed, the worker
\* that executed it is idle
C17_WorkerIdleAtTerminal ==
    [][\A t \in TaskIds :
          (tasks[t].status \notin Terminal /\ tasks'[t].status \in Terminal) =>
              agentStatus'[tasks'[t].assignedAgent] = "idle"
      ]_vars

\* tasks ended by a provider answer, by a provider failure and by an error
\* thrown before any provider call, the worker idle afterwards
C17_Witness ==
    \E t, u \in TaskIds :
        /\ tasks[t].status = "failed" /\ tasks[t].error = "Unknown message type"
        /\ tasks[u].status \in Terminal /\ pc[u] = "done"
        /\ tasks[u].error \in {Undefined, "provider error"}
        /\ agentStatus[tasks[t].assignedAgent] = "idle"
        /\ agentStatus[tasks[u].assignedAgent] = "idle"

C19_HybridAtMostRequested ==
    \A t \in TaskIds :
        (Hybrid(t) /\ tasks[t].payload.maxResults # NoMax) =>
            Len(returned[t]) <= tasks[t].payload.maxResults

DistinctIds(results) ==
    \A i, j \in 1..Len(results) : i # j => results[i].id # results[j].id

\* C20: no id occurs twice in a fused list, neither in the result of a hybrid
\* search nor in the combined list of the RAG pipeline
C20_NoDuplicateIds ==
    /\ DistinctIds(rag.sources)
    /\ \A t \in TaskIds : Hybrid(t) => DistinctIds(returned[t])

\* the result of a hybrid search has no id twice
HybridIdsDistinct == \A t \in TaskIds : Hybrid(t) => DistinctIds(returned[t])

\* C27: shutdown and unregisterAgent are idempotent: from every state, a
\* second shutdown() of a worker, and a second unregisterAgent(id), leave
\* what the first call left
C27_ShutdownIdempotent ==
    \A a \in AgentObjs :
        LET agent == [status |-> agentStatus[a], zai |-> zai[a]]
        IN  /\ shutdown(shutdown(agent)) = shutdown(agent)
            /\ unregistered(unregistered(Registry, a), a) = unregistered(Registry, a)
            /\ a \notin SeqToSet(agents) => unregistered(Registry, a) = Registry

\* the default agent was registered and handed a task, then unregisterAgent
\* was called twice
C27_Witness ==
    /\ registryCalls = 2
    /\ DefaultAgent \notin SeqToSet(agents)
    /\ agentStatus[DefaultAgent] = "idle" /\ ~zai[DefaultAgent]
    /\ ~initPending[DefaultAgent]
    /\ dispatchLog # <<>>

\* C28: a task of an advertised type, dispatched to the initialised search
\* agent whose providers succeed, ends completed with a result, and is never
\* refused as an unknown message type
C28_AdvertisedTypesComplete ==
    \A t \in TaskIds :
        (tasks[t].type \in capabilities(DefaultAgent).specialized /\ pc[t] = "done") =>
            /\ tasks[t].status = "completed"
            /\ tasks[t].result # Undefined
            /\ tasks[t].error # "Unknown message type"

\* C29: a hybrid search with budget b >= 1 asks the web provider for
\* floor(b / 2) results and the vector store for ceil(b / 2), b in all
C29_HybridSplitsBudget ==
    \A t \in TaskIds :
        (Handler(t) = "hybrid" /\ tasks[t].payload.maxResults >= 1) =>
            \A c \in providerCalls[t] :
                /\ c.provider = "web_search" =>
                      c.limit = tasks[t].payload.maxResults \div 2
                /\ c.provider = "similaritySearch" =>
                      c.limit = (tasks[t].payload.maxResults + 1) \div 2

InProgress == {t \in TaskIds : tasks[t].status = "in_progress"}

\* C30: a dispatch tick taken while a task is in_progress, with an idle
\* worker registered, assigns the head of the queue to an idle worker and
\* leaves the running tasks running on other workers
C30_DispatchDoesNotWait ==
    [][(InProgress # {} /\ availableAgents # <<>> /\ processTaskQueue) =>
          LET t == Head(taskQueue)
          IN  /\ tasks'[t].status = "in_progress"
              /\ tasks'[t].assignedAgent \in SeqToSet(availableAgents)
              /\ \A u \in InProgress :
                    /\ tasks'[u].status = "in_progress"
                    /\ tasks'[u].assignedAgent # tasks'[t].assignedAgent]_vars

C30_Witness ==
    \E t, u \in InProgress :
        /\ t # u
        /\ tasks[t].assignedAgent # tasks[u].assignedAgent
        /\ agentStatus[tasks[t].assignedAgent] = "busy"
        /\ agentStatus[tasks[u].assignedAgent] = "busy"

\* filters a caller may pass to getTasks
Filters ==
    [status : {Undefined, "pending", "in_progress", "completed", "failed"},
     type : {Undefined} \cup TaskTypes,
     agentId : {Undefined} \cup AgentObjs]

Matches(t, filter) ==
    /\ filter.status = Undefined \/ tasks[t].status = filter.status
    /\ filter.type = Undefined \/ tasks[t].type = filter.type
    /\ filter.agentId = Undefined \/ tasks[t].assignedAgent = filter.agentId

\* the tasks that are queued, being executed, or finished
Known ==
    {t \in TaskIds : \/ t \in SeqToSet(taskQueue) \cup SeqToSet(activeTasks)
                     \/ tasks[t].status \in Terminal}

\* C26: getTasks(filter) returns exactly the known tasks that match every
\* field of the filter, each once, by descending priority and, within a
\* priority, ascending createdAt
C26_GetTasksExact ==
    \A filter \in Filters :
        LET found == getTasks(filter)
        IN  /\ SeqToSet(found) = {t \in Known : Matches(t, filter)}
            /\ Len(found) = Cardinality(SeqToSet(found))
            /\ \A i, j \in 1..Len(found) :
                  i < j => compareTasks(tasks, found[i], found[j]) <= 0

\* the fulfilled sub-call values of a hybrid search, as pushed on `results`
Merged(t) ==
    (IF settled[t].web.ok THEN settled[t].web.value ELSE <<>>)
    \o (IF settled[t].vector.ok THEN settled[t].vector.value ELSE <<>>)

\* C21: the list a hybrid search returns is in non-increasing relevanceScore
\* order, holds merged surviving results only, each once, and no surviving
\* result left out has a higher relevanceScore than a returned one
C21_HybridBestFirst ==
    \A t \in TaskIds :
        Hybrid(t) =>
            /\ SortedByScore(returned[t])
            /\ DistinctIds(returned[t])
            /\ \A i \in 1..Len(returned[t]) :
                  /\ returned[t][i] \in SeqToSet(Merged(t))
                  /\ \A x \in SeqToSet(Merged(t)) \ SeqToSet(returned[t]) :
                        x.relevanceScore <= returned[t][i].relevanceScore

\* both sub-calls survived, a vector result was ranked above a web result,
\* and the cut left a result out
C21_Witness ==
    \E t \in TaskIds :
        /\ Hybrid(t) /\ settled[t].web.ok /\ settled[t].vector.ok
        /\ Len(returned[t]) = 2 /\ Len(Merged(t)) = 3
        /\ returned[t][2].sourceType = "vector"
        /\ Merged(t)[3].sourceType = "vector"

\* C22: every SearchResult of a web, vector or hybrid search has a
\* relevanceScore from 0 to 1 (0 to 1000 permille)
C22_ScoresInUnitInterval ==
    \A t \in TaskIds :
        \A r \in SeqToSet(returned[t]) \cup SeqToSet(settled[t].web.value)
                 \cup SeqToSet(settled[t].vector.value) :
            r.relevanceScore >= 0 /\ r.relevanceScore <= 1000

\* ---------------------------------------------- claims on the pipeline
\* C23: for n >= 1 results of average relevance a within [0, 1] the
\* confidence is min(0.95, 0.5 + min(0.3, 0.05 * n) + 0.2 * a), in permille
C23_ConfidenceFormula ==
    (/\ rag.pc = "done"
     /\ rag.sources # <<>>
     /\ \A i \in 1..Len(rag.sources) :
           rag.sources[i].score >= 0 /\ rag.sources[i].score <= 1000) =>
        LET n == Len(rag.sources)
            a == SumScores(rag.sources) \div n
        IN  rag.confidenceScore
              = Least(950, 500 + Least(300, 50 * n) + (2 * a) \div 10)

\* 4 results of average relevance 0.6 give 0.82
C23_Witness ==
    /\ rag.pc = "done"
    /\ Len(rag.sources) = 4
    /\ SumScores(rag.sources) = 4 * 600
    /\ rag.confidenceScore = 820

\* C24: the confidence returned with a fused result set is within [0, 0.95]
C24_ConfidenceInRange ==
    (rag.pc = "done" /\ rag.sources # <<>>) =>
        rag.confidenceScore >= 0 /\ rag.confidenceScore <= 950

\* C25: when retrieval yields no result, processQuery answers with the
\* no-information reply and a confidence of exactly 0.2
C25_NoResultsConfidence ==
    (rag.pc = "done" /\ rag.sources = <<>>) =>
        rag.response = NoInformation /\ rag.confidenceScore = 200

\* ------------------------------------------- claims on relevance scores
clamp(x, lo, hi) == IF x < lo THEN lo ELSE IF x > hi THEN hi ELSE x

Flag(b) == IF b THEN 1 ELSE 0

\* C31: the web result at zero-based position i of a response whose entries
\* have authority flag h and recency flag r scores
\* clamp(1.0 - 0.1 i + 0.1 h + 0.05 r, 0.1, 1.0), so among entries with the
\* same flags the score never rises with i, and no score is below 0.1
\* (permille)
C31_RelevanceFormula ==
    [][\A t \in TaskIds, web \in FlaggedResponses :
          searchSettled(t, web, DefaultVectorResponse) =>
             /\ Len(returned'[t]) = Len(web.hits)
             /\ \A k \in 1..Len(web.hits) :
                   /\ returned'[t][k].relevanceScore
                        = clamp(1000 - 100 * (k - 1)
                                  + 100 * Flag(web.hits[k].wikipedia)
                                  + 50 * Flag(web.hits[k].recent), 100, 1000)
                   /\ returned'[t][k].relevanceScore >= 100
                   /\ \A j \in 1..(k - 1) :
                         web.hits[j] = web.hits[k] =>
                            returned'[t][k].relevanceScore
                               <= returned'[t][j].relevanceScore]_vars

\* a response of 12 boosted entries: 1.0, 1.0 (cut from 1.05), 0.95, ..., and
\* 0.1 at position 11 (raised from 0.05)
C31_Witness ==
    \E t \in TaskIds :
        /\ tasks[t].status = "completed"
        /\ Len(returned[t]) = 12
        /\ returned[t][1].relevanceScore = 1000
        /\ returned[t][2].relevanceScore = 1000
        /\ returned[t][3].relevanceScore = 950
        /\ returned[t][11].relevanceScore = 150
        /\ returned[t][12].relevanceScore = 100

\* ------------------------------------------------ claims on validation
InvalidSearch(t) ==
    /\ tasks[t].type = "search"
    /\ \/ tasks[t].payload.query = Undefined
       \/ tasks[t].payload.searchType \notin {"web", "vector", "hybrid"}

\* C32: a search request without query or searchType, or with a searchType
\* other than web, vector and hybrid, is rejected with an error and no
\* web-search, embedding or vector-index call is made for it
C32_InvalidSearchRejected ==
    \A t \in TaskIds :
        InvalidSearch(t) =>
            /\ providerCalls[t] = {}
            /\ pc[t] # "provider"
            /\ tasks[t].status # "completed"
            /\ pc[t] = "done" =>
                  /\ tasks[t].status = "failed"
                  /\ tasks[t].error \in {"Invalid search payload", "Unknown search type"}

C32_Witness ==
    \E t, u \in TaskIds :
        /\ tasks[t].payload.searchType = "semantic"
        /\ tasks[t].payload.query = "q"
        /\ tasks[t].status = "failed"
        /\ tasks[t].error = "Unknown search type"
        /\ tasks[u].payload.query = Undefined
        /\ tasks[u].payload.searchType = "web"
        /\ tasks[u].status = "failed"
        /\ tasks[u].error = "Invalid search payload"
        /\ providerCalls[t] = {} /\ providerCalls[u] = {}

\* --------------------------------------------------- claims on events
\* C33: whatever the statusChanged handlers do, setStatus changes the
\* status, every registered handler is called, those after a throwing one
\* included, and setStatus returns normally, so that the execution calling it
\* goes on
C33_HandlersCannotAffectStatus ==
    [][\A status \in {"idle", "busy", "error"} :
          setStatus(status) =>
             /\ emitter'.status = status
             /\ emitter'.called = emitter.eventHandlers
             /\ ~emitter'.threw]_vars

C33_Witness ==
    /\ emitter.status = "busy"
    /\ emitter.eventHandlers = <<"throws", "log">>
    /\ emitter.called = <<"throws", "log">>
    /\ ~emitter.threw

\* ------------------------------------------------ claims on start and stop
\* C34: there is never more than one dispatch timer, whatever the number of
\* start() calls; while the coordinator is stopped no pending task leaves
\* pending; and a task that is in_progress reaches completed or failed,
\* stopped or not
C34_StopHaltsAdmission ==
    /\ [](timers <= 1 /\ (timers = 1 <=> isRunning))
    /\ [][~isRunning =>
            \A t \in TaskIds : tasks[t].status = "pending" => tasks'[t].status = "pending"]_vars
    /\ \A t \in 1..MaxTasks :
          (t \in TaskIds /\ tasks[t].status = "in_progress")
             ~> (t \in TaskIds /\ tasks[t].status \in {"completed", "failed"})

\* stopped after a dispatch, with a pending task queued and an idle worker
\* that a tick would give it to
C34_Witness ==
    /\ ~isRunning
    /\ dispatchLog # <<>>
    /\ availableAgents # <<>>
    /\ \E t \in SeqToSet(taskQueue) :
          tasks[t].status = "pending" /\ HasCapability(availableAgents[1], tasks[t].type)

\* ------------------------------------------------ claims on task writers
Written(t) ==
    \/ tasks'[t].status # tasks[t].status
    \/ tasks'[t].result # tasks[t].result
    \/ tasks'[t].error # tasks[t].error
    \/ tasks'[t].completedAt # tasks[t].completedAt

\* C35: status, result, error and completedAt of a task are written only by
\* the processTaskQueue invocation that took the task from the queue and
\* gave it to a worker: in the tick that does so, which happens once per task,
\* and when that invocation resumes after its provider call, and neither
\* step writes another task
C35_SingleWriter ==
    [][\A t \in TaskIds :
          Written(t) =>
             \/ /\ Count(dispatchLog, t) = 0
                /\ Head(taskQueue) = t
                /\ dispatchLog' = Append(dispatchLog, t)
             \/ /\ Count(dispatchLog, t) = 1
                /\ pc[t] = "provider" /\ pc'[t] = "done"
                /\ dispatchLog' = dispatchLog
                /\ \A u \in TaskIds \ {t} : ~Written(u)]_vars

\* two invocations in flight: the task dispatched second has finished while
\* the one dispatched first is still in_progress
C35_Witness ==
    /\ Len(dispatchLog) = 2
    /\ tasks[dispatchLog[1]].status = "in_progress"
    /\ tasks[dispatchLog[2]].status \in {"completed", "failed"}

\* ------------------------------------------------ claims on the crawler
\* C36: a job for which stopCrawl has returned true is failed with the error
\* 'Crawl stopped by user' and the endTime of the stop, in every later state
C36_StoppedStaysFailed ==
    \A j \in JobIds :
        crawler.jobs[j].stoppedAt # NoTime =>
            /\ crawler.jobs[j].status = "failed"
            /\ crawler.jobs[j].error = "Crawl stopped by user"
            /\ crawler.jobs[j].endTime = crawler.jobs[j].stoppedAt

\* C37: stopCrawl returns true exactly for a known job that is pending or
\* crawling, and when it returns false no job has changed
C37_StopOnlyRunningJobs ==
    [][\A jobId \in 1..(MaxJobs + 1) :
          stopCrawl(jobId) =>
             LET running == /\ jobId \in JobIds
                            /\ crawler.jobs[jobId].status \in {"pending", "crawling"}
             IN  /\ crawler'.lastStop = [jobId |-> jobId, returned |-> running]
                 /\ ~running => crawler'.jobs = crawler.jobs]_vars

\* stopCrawl has returned false for a job that finished on its own
C37_Witness ==
    /\ crawler.lastStop.jobId \in JobIds
    /\ ~crawler.lastStop.returned
    /\ crawler.jobs[crawler.lastStop.jobId].status = "completed"
    /\ crawler.jobs[crawler.lastStop.jobId].stoppedAt = NoTime
    /\ crawler.jobs[crawler.lastStop.jobId].error = Undefined

\* C38: a finished job of a request with maxPages >= 0 holds at most maxPages
\* results, one without maxPages at most 50, and no URL was fetched twice
C38_AtMostMaxPages ==
    \A j \in JobIds :
        LET job == crawler.jobs[j]
        IN  /\ \A i, k \in 1..Len(job.fetched) : i # k => job.fetched[i] # job.fetched[k]
            /\ job.pc = "done" =>
                  Len(job.results) <= (IF job.request.maxPages = NoMax
                                       THEN DefaultMaxPages ELSE job.request.maxPages)

\* ------------------------------------------------ claims on the monitor
\* C39: resolveAlert returns true exactly for a stored alert that is not
\* resolved, hence false for an id it has returned true for and for an
\* unknown id; an alert that is resolved stays resolved as long as it is
\* stored; and getAlerts(false) holds no resolved alert
C39_ResolvedOnce ==
    /\ [](\A i \in 1..Len(getAlerts(FALSE)) : ~getAlerts(FALSE)[i].resolved)
    /\ [][\A alertId \in 1..(MaxAlerts + 1) :
            resolveAlert(alertId) =>
               LET i == find(monitor.alerts, alertId)
               IN  /\ monitor'.lastResolve.returned
                        = (i > 0 /\ ~monitor.alerts[i].resolved)
                   /\ alertId \in monitor.resolvedOnce
                        => ~monitor'.lastResolve.returned]_vars
    /\ [][\A i \in 1..Len(monitor.alerts), k \in 1..Len(monitor'.alerts) :
            (monitor.alerts[i].resolved /\ monitor'.alerts[k].id = monitor.alerts[i].id)
               => /\ monitor'.alerts[k].resolved
                  /\ monitor'.alerts[k].resolved_at = monitor.alerts[i].resolved_at]_vars

\* a second resolveAlert for an alert that is still stored has returned false
C39_Witness ==
    /\ monitor.lastResolve.alertId \in monitor.resolvedOnce
    /\ ~monitor.lastResolve.returned
    /\ find(monitor.alerts, monitor.lastResolve.alertId) > 0
    /\ Len(getAlerts(TRUE)) = 2
    /\ Len(getAlerts(FALSE)) = 1

\* --------------------------------------------------- claims on the chat
\* C40: when no chat request is in flight, the history stored for each
\* conversation holds at most 50 messages
C40_HistoryAtMost50 ==
    chat.requests = <<>> =>
        \A c \in ConversationIds :
            chat.store[c] # 0 => chat.arrays[chat.store[c]] <= 50

====
